---- MODULE Spec2Model ----
(***************************************************************************)
(* Job lifecycle of src/app.py: the in-memory job store `jobs`, the        *)
(* background runner process_download with its progress_hook, and the      *)
(* handlers queue_download, get_status and download_file with the cleanup  *)
(* task cleanup_job_dir.                                                   *)
(*                                                                         *)
(* Scheduling.  The three handlers are `async def` without an await, so    *)
(* the event loop runs one handler at a time (one handler context: hpc).   *)
(* process_download and cleanup_job_dir are plain functions handed to      *)
(* BackgroundTasks: each runs on a worker thread after the response of the *)
(* request that scheduled it, concurrently with the event loop and with    *)
(* each other.  One action is one statement of a thread, so the threads    *)
(* interleave statement by statement.                                      *)
(***************************************************************************)
EXTENDS Integers, Sequences, FiniteSets, TLC

\* ---------------------------------------------------------------- bounds
MaxBytes == 2
MaxRetrieves == 2

\* the job ids uuid4 can issue; records and directories of different ids are
\* disjoint, so the lifecycle of one id is followed
JobIds == {1}
Urls == {"u"}
None == "None"

\* an absent file_path (paths are sequences of components)
NoPath == <<>>

\* a byte count that is None in a progress sample
NoBytes == 0 - 1

\* ------------------------------------------------------------- variables
VARIABLES
    store,      \* the keys of the dict `jobs`
    rec,        \* rec[j]: the record dict created for job id j
    dir,        \* dir[j]: state of the directory downloads/<j>
    rpc,        \* rpc[j]: position of process_download(j, ...)
    exc,        \* exc[j]: the exception e caught at line 168
    fbytes,     \* fbytes[j]: bytes the fetcher has read of the file it is fetching
    hpc,        \* position of the handler the event loop is running
    hjob,       \* job_id of that handler
    hloc,       \* locals of that handler
    seen,       \* the (status, progress, error) values the record of hjob has held
                \* since line 246 of the get_status that is running
    resp,       \* the response handed to a client by the last step, if any
    deliv,      \* deliv[j]: FileResponses of j being sent
    clRm,       \* clRm[j]: cleanup_job_dir tasks of j before line 267
    clPop,      \* clPop[j]: cleanup_job_dir tasks of j before line 268
    nretr,      \* nretr[j]: Retrieves of j accepted so far
    retrieved   \* retrieved[j]: a Retrieve of j has delivered its artifact

vars == <<store, rec, dir, rpc, exc, fbytes, hpc, hjob, hloc, seen, resp,
          deliv, clRm, clPop, nretr, retrieved>>

\* ------------------------------------------------------- progress values
\* progress is a Python float; (downloaded / total) * 100 is kept exact as a
\* reduced fraction num/den.
RECURSIVE GCD(_, _)
GCD(a, b) == IF b = 0 THEN a ELSE GCD(b, a % b)

Num(n) == [num |-> n, den |-> 1]

Percent(downloaded, total) ==
    LET g == GCD(downloaded * 100, total)
    IN  [num |-> (downloaded * 100) \div g, den |-> total \div g]

Less(p, q) == p.num * q.den < q.num * p.den

\* ------------------------------------------------------------ file paths
\* os.path.join(DOWNLOAD_DIR, job_id)
JobDir(j) == <<"downloads", j>>

\* the file yt-dlp writes under out_tmpl
FinalFilename(j) == Append(JobDir(j), "title.ext")

\* os.path.basename / os.path.dirname
Basename(path) == path[Len(path)]
Dirname(path) == SubSeq(path, 1, Len(path) - 1)

\* the job whose directory is `d`
JobOfDir(d) == d[2]

\* a removal that leaves the directory in place
RmTreeKeep(d) == d

\* shutil.rmtree(path, ignore_errors=True), taken to remove the tree (a removal
\* that fails is silent and leaves it)
RmTree(d) == "absent"

\* os.makedirs(job_dir, exist_ok=True)
MakeDirs(d) == IF d = "absent" THEN "empty" ELSE d

\* --------------------------------------------------------------- records
\* queue_download storing the record as already picked up by the runner
NewRecordProcessing(url) ==
    [status |-> "processing", url |-> url, progress |-> Num(0),
     file_path |-> NoPath, filename |-> None, error |-> None]

\* the dict literal of queue_download (lines 228-232)
NewRecord(url) ==
    [status |-> "queued", url |-> url, progress |-> Num(0),
     file_path |-> NoPath, filename |-> None, error |-> None]

\* A response: the HTTP status code and detail, the body fields of a status
\* answer, whether jobs.get found a record for the id (`found`), and two
\* facts about the moment of the request: `after` (a Retrieve
\* of this job had delivered its artifact when the request arrived) and
\* `early` (process_download had not run a statement when it was answered).
Response(op, j, found, code, detail, body, after, early) ==
    [op |-> op, job |-> j, found |-> found, code |-> code, detail |-> detail,
     status |-> body.status, progress |-> body.progress, error |-> body.error,
     after |-> after, early |-> early]

NoBody == [status |-> None, progress |-> Num(0), error |-> None]
NoResp == Response("none", 0, FALSE, 0, None, NoBody, FALSE, FALSE)
NoLocals == [status |-> None, progress |-> Num(0), after |-> FALSE]

\* HTTPException(status_code=404, detail="Job not found")
JobNotFound == [code |-> 404, detail |-> "Job not found"]

\* HTTPException(status_code=400, detail="File not ready or job failed")
FileNotReady == [code |-> 400, detail |-> "File not ready or job failed"]

\* a returned JSON body or FileResponse
Ok == [code |-> 200, detail |-> None]

\* the server's answer when sending a FileResponse raises
ServerError == [code |-> 500, detail |-> "Internal Server Error"]

Init ==
    /\ store = {}
    /\ rec = [j \in JobIds |-> NewRecord("u")]
    /\ dir = [j \in JobIds |-> "absent"]
    /\ rpc = [j \in JobIds |-> "none"]
    /\ exc = [j \in JobIds |-> None]
    /\ fbytes = [j \in JobIds |-> 0]
    /\ hpc = "idle"
    /\ hjob = 0
    /\ hloc = NoLocals
    /\ seen = {}
    /\ resp = NoResp
    /\ deliv = [j \in JobIds |-> 0]
    /\ clRm = [j \in JobIds |-> 0]
    /\ clPop = [j \in JobIds |-> 0]
    /\ nretr = [j \in JobIds |-> 0]
    /\ retrieved = [j \in JobIds |-> FALSE]

\* str(uuid.uuid4()): an id never issued before
FreshId == CHOOSE j \in JobIds : rpc[j] = "none" /\ \A k \in JobIds : rpc[k] = "none" => j <= k

\* queue_download: the record is created, process_download is added to the
\* background tasks (it starts at line 104 after the response), the id is
\* returned.
Enqueue(url) ==
    /\ hpc = "idle"
    /\ \E j \in JobIds : rpc[j] = "none"
    /\ LET j == FreshId IN
        /\ store' = store \cup {j}
        /\ rec' = [rec EXCEPT ![j] = NewRecord(url)]
        /\ rpc' = [rpc EXCEPT ![j] = "L105"]
        /\ resp' = Response("enqueue", j, TRUE, Ok.code, Ok.detail, NoBody, FALSE, TRUE)
    /\ UNCHANGED <<seen, dir, exc, fbytes, hpc, hjob, hloc, deliv, clRm, clPop, nretr, retrieved>>

\* ------------------------------------------------------ process_download
\* the fields of a record that get_status returns
Triple(r) == <<r.status, r.progress, r.error>>

\* the values held by the record that a running get_status fetched at line
\* 246, after a write of the runner
Observed ==
    IF hpc \in {"L251", "L252", "L253"} THEN seen \cup {Triple(rec'[hjob])} ELSE seen

\* jobs[job_id][field] = value
Put(j, field, value) == rec' = [rec EXCEPT ![j][field] = value]

\* The samples yt-dlp hands to progress_hook.  The hook reads the byte counts
\* of a 'downloading' sample only, so the other samples carry none here.
Counts == {NoBytes} \cup (0..MaxBytes)
Samples ==
    [status : {"downloading"},
     total_bytes : Counts, total_bytes_estimate : Counts,
     downloaded_bytes : Counts]
    \cup
    [status : {"finished", "error"},
     total_bytes : {NoBytes}, total_bytes_estimate : {NoBytes},
     downloaded_bytes : {NoBytes}]

\* Python truth of a byte count: None and 0 are false
Truthy(n) == n /= NoBytes /\ n /= 0

\* progress_hook(d) applied to the record r: the new record.  A None
\* downloaded count raises TypeError at line 120, swallowed at line 122.
ProgressHook(r, d) ==
    IF d.status = "downloading" THEN
        LET total == IF Truthy(d.total_bytes) THEN d.total_bytes
                     ELSE d.total_bytes_estimate
            downloaded == d.downloaded_bytes
        IN  IF Truthy(total) /\ downloaded /= NoBytes
            THEN [r EXCEPT !.progress = Percent(downloaded, total)]
            ELSE r
    ELSE IF d.status = "finished" THEN [r EXCEPT !.progress = Num(99)]
    ELSE r

\* line 105; an OSError here is outside the try block and ends the task
RunMakeDirs(j) ==
    /\ rpc[j] = "L105"
    /\ \E ok \in BOOLEAN :
        IF ok THEN /\ dir' = [dir EXCEPT ![j] = MakeDirs(dir[j])]
                   /\ rpc' = [rpc EXCEPT ![j] = "L107"]
              ELSE /\ rpc' = [rpc EXCEPT ![j] = "crashed"]
                   /\ UNCHANGED dir
    /\ resp' = NoResp
    /\ UNCHANGED <<seen, store, rec, exc, fbytes, hpc, hjob, hloc, deliv, clRm, clPop, nretr, retrieved>>

\* line 107
RunProcessing(j) ==
    /\ rpc[j] = "L107"
    /\ Put(j, "status", "processing")
    /\ rpc' = [rpc EXCEPT ![j] = "L108"]
    /\ resp' = NoResp
    /\ seen' = Observed
    /\ UNCHANGED <<store, dir, exc, fbytes, hpc, hjob, hloc, deliv, clRm, clPop, nretr, retrieved>>

\* line 108; lines 111-149 build ydl_opts and touch no job state
RunResetProgress(j) ==
    /\ rpc[j] = "L108"
    /\ Put(j, "progress", Num(0))
    /\ rpc' = [rpc EXCEPT ![j] = "fetch"]
    /\ resp' = NoResp
    /\ seen' = Observed
    /\ UNCHANGED <<store, dir, exc, fbytes, hpc, hjob, hloc, deliv, clRm, clPop, nretr, retrieved>>

\* One call of progress_hook made by ydl.extract_info (line 153).  Within a
\* file the downloaded count does not go back; the totals are reported or
\* estimated per sample; after 'finished' the next file starts from 0.
Hook(j, d) ==
    /\ rpc[j] = "fetch"
    /\ d.status = "downloading" =>
          d.downloaded_bytes = NoBytes \/ d.downloaded_bytes >= fbytes[j]
    /\ fbytes' = [fbytes EXCEPT ![j] =
                    IF d.status = "finished" THEN 0
                    ELSE IF d.status = "downloading" /\ d.downloaded_bytes /= NoBytes
                         THEN d.downloaded_bytes
                    ELSE @]
    /\ rec' = [rec EXCEPT ![j] = ProgressHook(rec[j], d)]
    /\ resp' = NoResp
    /\ seen' = Observed
    /\ UNCHANGED <<store, dir, rpc, exc, hpc, hjob, hloc, deliv, clRm, clPop, nretr, retrieved>>

\* lines 152-161: YoutubeDL(...) or extract_info raises, or extract_info
\* returns info with or without 'requested_downloads'; `wrote` says whether
\* the fetcher left a file in job_dir.
FetchReturn(j, outcome, wrote) ==
    /\ rpc[j] = "fetch"
    /\ LET d == IF wrote THEN "file" ELSE dir[j] IN
        /\ dir' = [dir EXCEPT ![j] = d]
        /\ CASE outcome = "raise" ->
                  /\ exc' = [exc EXCEPT ![j] = "fetch error"]
                  /\ rpc' = [rpc EXCEPT ![j] = "L170"]
             [] outcome = "listed" /\ d /= "file" ->
                  /\ exc' = [exc EXCEPT ![j] = "File not found after download"]
                  /\ rpc' = [rpc EXCEPT ![j] = "L170"]
             [] OTHER ->
                  /\ rpc' = [rpc EXCEPT ![j] = "L163"]
                  /\ UNCHANGED exc
    /\ outcome = "requested" => wrote
    /\ resp' = NoResp
    /\ fbytes' = [fbytes EXCEPT ![j] = 0]
    /\ UNCHANGED <<seen, store, rec, hpc, hjob, hloc, deliv, clRm, clPop, nretr, retrieved>>

\* line 163
RunFilePath(j) ==
    /\ rpc[j] = "L163"
    /\ Put(j, "file_path", FinalFilename(j))
    /\ rpc' = [rpc EXCEPT ![j] = "L164"]
    /\ resp' = NoResp
    /\ seen' = Observed
    /\ UNCHANGED <<store, dir, exc, fbytes, hpc, hjob, hloc, deliv, clRm, clPop, nretr, retrieved>>

\* line 164
RunFilename(j) ==
    /\ rpc[j] = "L164"
    /\ Put(j, "filename", Basename(FinalFilename(j)))
    /\ rpc' = [rpc EXCEPT ![j] = "L165"]
    /\ resp' = NoResp
    /\ seen' = Observed
    /\ UNCHANGED <<store, dir, exc, fbytes, hpc, hjob, hloc, deliv, clRm, clPop, nretr, retrieved>>

\* line 165
RunCompleted(j) ==
    /\ rpc[j] = "L165"
    /\ Put(j, "status", "completed")
    /\ rpc' = [rpc EXCEPT ![j] = "L166"]
    /\ resp' = NoResp
    /\ seen' = Observed
    /\ UNCHANGED <<store, dir, exc, fbytes, hpc, hjob, hloc, deliv, clRm, clPop, nretr, retrieved>>

\* line 166; jobs[job_id] raises KeyError once the record has been popped,
\* and the exception is caught at line 168
RunProgress100(j) ==
    /\ rpc[j] = "L166"
    /\ IF j \in store
       THEN /\ Put(j, "progress", Num(100))
            /\ rpc' = [rpc EXCEPT ![j] = "exit"]
            /\ UNCHANGED exc
       ELSE /\ exc' = [exc EXCEPT ![j] = "KeyError"]
            /\ rpc' = [rpc EXCEPT ![j] = "L170"]
            /\ UNCHANGED rec
    /\ resp' = NoResp
    /\ seen' = Observed
    /\ UNCHANGED <<store, dir, fbytes, hpc, hjob, hloc, deliv, clRm, clPop, nretr, retrieved>>

\* the end of the with block of line 152, inside the try: YoutubeDL.__exit__
\* closes the downloader and saves the cookie file; it returns, or raises
\* (the cookie file of line 62 is read-only) into the except of line 168
RunExit(j) ==
    /\ rpc[j] = "exit"
    /\ \E ok \in BOOLEAN :
        IF ok THEN /\ rpc' = [rpc EXCEPT ![j] = "done"]
                   /\ UNCHANGED exc
              ELSE /\ rpc' = [rpc EXCEPT ![j] = "L170"]
                   /\ exc' = [exc EXCEPT ![j] = "exit error"]
    /\ resp' = NoResp
    /\ UNCHANGED <<seen, store, rec, dir, fbytes, hpc, hjob, hloc, deliv, clRm, clPop, nretr, retrieved>>

\* line 170 (line 169 only logs); a KeyError here leaves the function
RunFailed(j) ==
    /\ rpc[j] = "L170"
    /\ IF j \in store
       THEN /\ Put(j, "status", "failed")
            /\ rpc' = [rpc EXCEPT ![j] = "L171"]
       ELSE /\ rpc' = [rpc EXCEPT ![j] = "crashed"]
            /\ UNCHANGED rec
    /\ resp' = NoResp
    /\ seen' = Observed
    /\ UNCHANGED <<store, dir, exc, fbytes, hpc, hjob, hloc, deliv, clRm, clPop, nretr, retrieved>>

\* line 171
RunError(j) ==
    /\ rpc[j] = "L171"
    /\ IF j \in store
       THEN /\ Put(j, "error", exc[j])
            /\ rpc' = [rpc EXCEPT ![j] = "L172"]
       ELSE /\ rpc' = [rpc EXCEPT ![j] = "crashed"]
            /\ UNCHANGED rec
    /\ resp' = NoResp
    /\ seen' = Observed
    /\ UNCHANGED <<store, dir, exc, fbytes, hpc, hjob, hloc, deliv, clRm, clPop, nretr, retrieved>>

\* line 172
RunRmTree(j) ==
    /\ rpc[j] = "L172"
    /\ dir' = [dir EXCEPT ![JobOfDir(JobDir(j))] = RmTree(@)]
    /\ rpc' = [rpc EXCEPT ![j] = "done"]
    /\ resp' = NoResp
    /\ UNCHANGED <<seen, store, rec, exc, fbytes, hpc, hjob, hloc, deliv, clRm, clPop, nretr, retrieved>>

Runner(j) ==
    \/ RunMakeDirs(j)
    \/ RunProcessing(j)
    \/ RunResetProgress(j)
    \/ \E d \in Samples : Hook(j, d)
    \/ \E o \in {"raise", "requested", "listed"}, w \in BOOLEAN : FetchReturn(j, o, w)
    \/ RunFilePath(j)
    \/ RunFilename(j)
    \/ RunCompleted(j)
    \/ RunProgress100(j)
    \/ RunExit(j)
    \/ RunFailed(j)
    \/ RunError(j)
    \/ RunRmTree(j)

\* ------------------------------------------------------------ get_status
\* lines 246-248: job = jobs.get(job_id); 404 when there is no record
QueryGet(j) ==
    /\ hpc = "idle"
    /\ IF j \in store
       THEN /\ hpc' = "L251"
            /\ hjob' = j
            /\ hloc' = [NoLocals EXCEPT !.after = retrieved[j]]
            /\ seen' = {Triple(rec[j])}
            /\ resp' = NoResp
       ELSE /\ resp' = Response("query", j, FALSE, JobNotFound.code, JobNotFound.detail,
                                NoBody, retrieved[j], rpc[j] = "L105")
            /\ UNCHANGED <<hpc, hjob, hloc, seen>>
    /\ UNCHANGED <<store, rec, dir, rpc, exc, fbytes, deliv, clRm, clPop, nretr, retrieved>>

\* line 251: job["status"], read from the dict fetched at line 246
QueryStatus ==
    /\ hpc = "L251"
    /\ hloc' = [hloc EXCEPT !.status = rec[hjob].status]
    /\ hpc' = "L252"
    /\ resp' = NoResp
    /\ UNCHANGED <<seen, store, rec, dir, rpc, exc, fbytes, hjob, deliv, clRm, clPop, nretr, retrieved>>

\* line 252: job.get("progress", 0)
QueryProgress ==
    /\ hpc = "L252"
    /\ hloc' = [hloc EXCEPT !.progress = rec[hjob].progress]
    /\ hpc' = "L253"
    /\ resp' = NoResp
    /\ UNCHANGED <<seen, store, rec, dir, rpc, exc, fbytes, hjob, deliv, clRm, clPop, nretr, retrieved>>

\* lines 253-254: job.get("error"), and the body is returned
QueryError ==
    /\ hpc = "L253"
    /\ resp' = Response("query", hjob, TRUE, Ok.code, Ok.detail,
                        [status |-> hloc.status, progress |-> hloc.progress,
                         error |-> rec[hjob].error],
                        hloc.after, rpc[hjob] = "L105")
    /\ hpc' = "idle"
    /\ hjob' = 0
    /\ hloc' = NoLocals
    /\ seen' = {}
    /\ UNCHANGED <<store, rec, dir, rpc, exc, fbytes, deliv, clRm, clPop, nretr, retrieved>>

\* --------------------------------------------------------- download_file
\* download_file letting a failed job through as well
ReadyOrFailed(status) == status \in {"completed", "failed"}

\* the test of line 259 on the status read from the record
Ready(status) == status = "completed"

\* lines 258-259, first operand: job = jobs.get(job_id); `not job`
RetrieveGet(j) ==
    /\ hpc = "idle"
    /\ IF j \in store
       THEN /\ hpc' = "L259"
            /\ hjob' = j
            /\ hloc' = [NoLocals EXCEPT !.after = retrieved[j]]
            /\ resp' = NoResp
       ELSE /\ resp' = Response("retrieve", j, FALSE, FileNotReady.code, FileNotReady.detail,
                                NoBody, retrieved[j], rpc[j] = "L105")
            /\ UNCHANGED <<hpc, hjob, hloc>>
    /\ UNCHANGED <<seen, store, rec, dir, rpc, exc, fbytes, deliv, clRm, clPop, nretr, retrieved>>

\* line 259, second operand, then lines 262-276: the path and name are read,
\* cleanup_job_dir is added to the background tasks and the FileResponse is
\* returned to the server, which starts sending it
RetrieveCheck ==
    /\ hpc = "L259"
    /\ IF Ready(rec[hjob].status)
       THEN /\ nretr[hjob] < MaxRetrieves
            /\ nretr' = [nretr EXCEPT ![hjob] = @ + 1]
            /\ deliv' = [deliv EXCEPT ![hjob] = @ + 1]
            /\ resp' = NoResp
       ELSE /\ resp' = Response("retrieve", hjob, TRUE, FileNotReady.code, FileNotReady.detail,
                                NoBody, hloc.after, rpc[hjob] = "L105")
            /\ UNCHANGED <<nretr, deliv>>
    /\ hpc' = "idle"
    /\ hjob' = 0
    /\ hloc' = NoLocals
    /\ UNCHANGED <<seen, store, rec, dir, rpc, exc, fbytes, clRm, clPop, retrieved>>

\* The FileResponse of job j is sent: the file is there and goes to the
\* client, after which the background task cleanup_job_dir starts; or the
\* file is gone, the send raises and the background task is not run.
Deliver(j) ==
    /\ deliv[j] > 0
    /\ deliv' = [deliv EXCEPT ![j] = @ - 1]
    /\ IF dir[JobOfDir(Dirname(rec[j].file_path))] = "file"
       THEN /\ resp' = Response("retrieve", j, TRUE, Ok.code, Ok.detail, NoBody, FALSE, FALSE)
            /\ clRm' = [clRm EXCEPT ![j] = @ + 1]
            /\ retrieved' = [retrieved EXCEPT ![j] = TRUE]
       ELSE /\ resp' = Response("retrieve", j, TRUE, ServerError.code, ServerError.detail,
                                NoBody, FALSE, FALSE)
            /\ UNCHANGED <<clRm, retrieved>>
    /\ UNCHANGED <<seen, store, rec, dir, rpc, exc, fbytes, hpc, hjob, hloc, clPop, nretr>>

\* ------------------------------------------------------- cleanup_job_dir
\* lines 266-267
CleanRmTree(j) ==
    /\ clRm[j] > 0
    /\ clRm' = [clRm EXCEPT ![j] = @ - 1]
    /\ clPop' = [clPop EXCEPT ![j] = @ + 1]
    /\ dir' = [dir EXCEPT ![JobOfDir(Dirname(rec[j].file_path))] = RmTree(@)]
    /\ resp' = NoResp
    /\ UNCHANGED <<seen, store, rec, rpc, exc, fbytes, hpc, hjob, hloc, deliv, nretr, retrieved>>

\* cleanup_job_dir popping the record before it has removed the directory
CleanPopFirst(j) ==
    /\ clRm[j] > 0
    /\ store' = store \ {j}
    /\ resp' = NoResp
    /\ UNCHANGED <<seen, rec, dir, rpc, exc, fbytes, hpc, hjob, hloc, deliv, clRm, clPop, nretr, retrieved>>

\* line 268: jobs.pop(job_id, None)
CleanPop(j) ==
    /\ clPop[j] > 0
    /\ clPop' = [clPop EXCEPT ![j] = @ - 1]
    /\ store' = store \ {j}
    /\ resp' = NoResp
    /\ UNCHANGED <<seen, rec, dir, rpc, exc, fbytes, hpc, hjob, hloc, deliv, clRm, nretr, retrieved>>

Next ==
    \/ \E u \in Urls : Enqueue(u)
    \/ \E j \in JobIds : Runner(j)
    \/ \E j \in JobIds : QueryGet(j)
    \/ QueryStatus
    \/ QueryProgress
    \/ QueryError
    \/ \E j \in JobIds : RetrieveGet(j)
    \/ RetrieveCheck
    \/ \E j \in JobIds : Deliver(j)
    \/ \E j \in JobIds : CleanRmTree(j)
    \/ \E j \in JobIds : CleanPop(j)

Spec == Init /\ [][Next]_vars

\* The steps of process_download(j) other than the progress callbacks: a
\* started worker thread runs its next statement, and the call of line 153
\* returns or raises.
RunnerStep(j) ==
    \/ RunMakeDirs(j) \/ RunProcessing(j) \/ RunResetProgress(j)
    \/ \E o \in {"raise", "requested", "listed"}, w \in BOOLEAN : FetchReturn(j, o, w)
    \/ RunFilePath(j) \/ RunFilename(j) \/ RunCompleted(j) \/ RunProgress100(j)
    \/ RunExit(j) \/ RunFailed(j) \/ RunError(j) \/ RunRmTree(j)

\* Spec with the scheduling of the background task: a task added at line 234
\* is run, and a running task is not starved.
FairSpec == Spec /\ \A j \in JobIds : WF_vars(RunnerStep(j))

\* ================================================================ claims
Hundred == Num(100)

\* the legal moves of status
Legal == {<<"queued", "processing">>, <<"processing", "completed">>,
          <<"processing", "failed">>}

\* C1: in every step, the status of every job's record either stays as it is
\* or moves queued -> processing, processing -> completed or processing ->
\* failed; so nothing leaves completed or failed and a terminal state is
\* entered at most once.
C1_StatusMonotonic ==
    [][\A j \in JobIds :
          rec'[j].status /= rec[j].status =>
              <<rec[j].status, rec'[j].status>> \in Legal]_vars

\* C2: as long as process_download has not run a statement, the record is in
\* the store with status queued and progress 0; the answer of Enqueue is given
\* in such a state; and a Query answered in such a state finds the record and
\* returns status queued or processing.
C2_QueuedBeforeRunner ==
    /\ \A j \in JobIds :
          rpc[j] = "L105" =>
              j \in store /\ rec[j].status = "queued" /\ rec[j].progress = Num(0)
    /\ resp.op = "enqueue" => resp.code = Ok.code /\ rpc[resp.job] = "L105"
    /\ (resp.op = "query" /\ resp.early) =>
          resp.code = Ok.code /\ resp.status \in {"queued", "processing"}

\* a Query answered before the runner's first statement, with status queued
C2_Witness ==
    resp.op = "query" /\ resp.early /\ resp.code = Ok.code /\ resp.status = "queued"

\* C3: the step of download_file that tests the status of an existing record
\* and finds queued, processing or failed answers NotReady (400), sends no
\* FileResponse, schedules no cleanup and leaves the store, the record and the
\* directory as they were.
C3_RetrieveNotReady ==
    [][(hpc = "L259" /\ hpc' = "idle" /\ hjob \in store
        /\ rec[hjob].status \in {"queued", "processing", "failed"}) =>
          /\ resp'.op = "retrieve" /\ resp'.job = hjob
          /\ resp'.code = FileNotReady.code /\ resp'.detail = FileNotReady.detail
          /\ UNCHANGED <<store, rec, dir, deliv, clRm, clPop, nretr, retrieved>>]_vars

\* a Retrieve of a failed job, whose record exists, has been refused
C3_Witness ==
    /\ resp.op = "retrieve" /\ resp.found /\ resp.code = FileNotReady.code
    /\ resp.job \in store /\ rec[resp.job].status = "failed"
    /\ deliv[resp.job] = 0 /\ clRm[resp.job] = 0 /\ clPop[resp.job] = 0

\* C4: every Query and every Retrieve whose jobs.get found no record is
\* answered NotFound (404), an outcome different from the NotReady outcome.
C4_UnknownIsNotFound ==
    (resp.op \in {"query", "retrieve"} /\ ~resp.found) =>
        /\ resp.code = JobNotFound.code
        /\ <<resp.code, resp.detail>> /= <<FileNotReady.code, FileNotReady.detail>>

\* C5: every Query and every Retrieve that arrives after a Retrieve of the
\* same job has delivered its artifact is answered NotFound (404).
C5_NotFoundAfterRetrieve ==
    (resp.op \in {"query", "retrieve"} /\ resp.after) => resp.code = JobNotFound.code

\* C6: a record in the store with status completed has progress 100.
C6_CompletedHasFullProgress ==
    \A j \in store : rec[j].status = "completed" => rec[j].progress = Hundred

\* C7: no step lowers the progress of a record that is processing before and
\* after the step.
C7_ProgressNeverDecreases ==
    [][\A j \in JobIds :
          (rec[j].status = "processing" /\ rec'[j].status = "processing") =>
              ~Less(rec'[j].progress, rec[j].progress)]_vars

\* C8: a record in the store with progress 100 has status completed.
C8_FullProgressIsCompleted ==
    \A j \in store : rec[j].progress = Hundred => rec[j].status = "completed"

\* C9: a record in the store has a file_path if and only if its status is
\* completed (the path appears in the step that makes the status completed).
C9_PathIffCompleted ==
    \A j \in store : (rec[j].file_path /= NoPath) <=> (rec[j].status = "completed")

\* C10: a record in the store has an error if and only if its status is failed
\* (the error appears in the step that makes the status failed).
C10_ErrorIffFailed ==
    \A j \in store : (rec[j].error /= None) <=> (rec[j].status = "failed")

\* process_download(j) has returned or has been left by an exception
Ended(j) == rpc[j] \in {"done", "crashed"}

C12_FailuresBecomeFailed ==
    \A j \in JobIds :
        /\ rpc[j] /= "crashed"
        /\ Ended(j) => rec[j].status \in {"completed", "failed"}
        /\ (Ended(j) /\ rec[j].status = "failed") => rec[j].error /= None

\* C13: every enqueued job eventually has status completed or failed.
C13_EventuallyTerminal ==
    \A j \in JobIds :
        (rpc[j] = "L105") ~> (rec[j].status \in {"completed", "failed"})

\* C14: the (status, progress, error) that get_status returns is a value the
\* record held at one instant between the handler's line 246 and its return.
C14_ConsistentSnapshot ==
    [][(hpc = "L253" /\ hpc' = "idle") =>
          <<resp'.status, resp'.progress, resp'.error>> \in seen]_vars

\* the status of j has been completed: line 165 has run
ReachedCompleted(j) == rec[j].filename /= None /\ rpc[j] /= "L165"

\* C15: a job that has been completed and whose record or directory is gone
\* has had a Retrieve that delivered its artifact.
C15_OnlyRetrieveRemoves ==
    \A j \in JobIds :
        (ReachedCompleted(j) /\ (j \notin store \/ dir[j] /= "file")) => retrieved[j]

\* C16: the progress of every record in the store is between 0 and 100.
C16_ProgressInRange ==
    \A j \in store :
        ~Less(rec[j].progress, Num(0)) /\ ~Less(Hundred, rec[j].progress)

C18_DeliveryFindsFile ==
    \A j \in JobIds : deliv[j] > 0 => dir[j] = "file"

\* the statements of process_download that write jobs[job_id][...]
WritePcs == {"L107", "L108", "fetch", "L163", "L164", "L165", "L166", "L170", "L171"}

\* C19: whenever process_download is about to write the record, the record
\* is in the store, and no KeyError is raised by such a write.
C19_RunnerWritesPresentRecord ==
    \A j \in JobIds :
        /\ rpc[j] \in WritePcs => j \in store
        /\ exc[j] /= "KeyError"

\* C20: the record of a job whose status is failed is in the store, so no
\* Query for it is answered NotFound.
C20_FailedRecordKept ==
    /\ \A j \in JobIds : rec[j].status = "failed" => j \in store
    /\ (resp.op = "query" /\ rec[resp.job].status = "failed") =>
          resp.code /= JobNotFound.code
====
